---- MODULE Spec2Model ----
(***************************************************************************)
(* Model of package xss (src/xss/xss.go): NewClient, Client.Query, the     *)
(* finalizer installed by NewClient, and the callers that share one        *)
(* *Client.                                                                *)
(*                                                                         *)
(* Query has a VALUE receiver (func (cl Client) Query()), so every call    *)
(* works on a private copy of the Client struct: the two C pointers are    *)
(* copied (and still name the shared display and the shared buffer) and    *)
(* the sync.Mutex is copied as well.  The model keeps that copy in cl[t].  *)
(***************************************************************************)
EXTENDS Integers, FiniteSets, Sequences, TLC

\* ---------------------------------------------------------------- bounds
NCallers == 2      \* goroutines sharing the *Client
MaxCalls == 2      \* Query() calls made in all
MaxMillis == 1     \* largest raw millisecond value the server reports

Callers == 1..NCallers
Millis == 0..MaxMillis
\* what a read of a millisecond field of released memory may yield
GarbageMillis == {0, MaxMillis}

\* ------------------------------------------------------ program constants
\* <X11/extensions/saver.h>, <X11/extensions/scrnsaver.h>
ScreenSaverOff == 0
ScreenSaverOn == 1
ScreenSaverDisabled == 3
ScreenSaverBlanked == 0
ScreenSaverInternal == 1
ScreenSaverExternal == 2
\* type Kind, const ( Blanked Kind = iota; Internal; External )
Blanked == 0
Internal == 1
External == 2
\* time.Millisecond, in the nanoseconds of time.Duration
Millisecond == 1000000

\* raw codes a reply can carry (one unrecognised code in each enumeration)
StateCodes == 0..3
KindCodes == 0..3
\* C.Status returned by QueryInfo: 0 is failure
StatusCodes == {0, 1}

NilErr == "nil"
ErrOpen == "Could not open X display."
ErrExt == "XSS extension not active."
ErrQuery == "Error querying XSS."

\* ------------------------------------------------------------- data model
\* XScreenSaverInfo as far as Query reads it
RawInfo == [idle : Millis, state : StateCodes, til_or_since : Millis, kind : KindCodes]

\* the replies of the stubbed server in the concurrent specification: one
\* per state code, each with a different kind code
StubReplies == {r \in RawInfo : r.kind = r.state /\ r.idle = MaxMillis /\ r.til_or_since = MaxMillis}

\* the zero value of Info: the named result i at entry to Query
ZeroInfo == [Enabled |-> FALSE, Active |-> FALSE, Kind |-> Blanked, Countdown |-> 0, ActiveTime |-> 0, IdleTime |-> 0]

\* the zero value of Client: nil pointers, unlocked mutex
ZeroClient == [disp |-> "nil", info |-> "nil", mutex |-> FALSE]

\* Kind.String
KindString(k) ==
    CASE k = Blanked -> "blanked"
      [] k = Internal -> "internal"
      [] k = External -> "external"
      [] OTHER -> "unknown"

\* time.Duration(v) * time.Millisecond
Duration(v) == v * Millisecond

\* line 126: i.IdleTime = time.Duration(cl.info.idle) * time.Millisecond
DecodeIdle(i, idle) == [i EXCEPT !.IdleTime = Duration(idle)]

\* DecodeState whose on case forgets i.Enabled = true (line 129)
DecodeStateActiveOnly(i, state) ==
    CASE state = ScreenSaverOn -> [i EXCEPT !.Active = TRUE]
      [] state = ScreenSaverOff -> [i EXCEPT !.Enabled = TRUE, !.Active = FALSE]
      [] state = ScreenSaverDisabled -> [i EXCEPT !.Enabled = FALSE, !.Active = FALSE]
      [] OTHER -> i

\* lines 127-141, the assignments to Enabled and Active of each case; a
\* switch without default leaves i alone for any other code
DecodeState(i, state) ==
    CASE state = ScreenSaverOn -> [i EXCEPT !.Enabled = TRUE, !.Active = TRUE]
      [] state = ScreenSaverOff -> [i EXCEPT !.Enabled = TRUE, !.Active = FALSE]
      [] state = ScreenSaverDisabled -> [i EXCEPT !.Enabled = FALSE, !.Active = FALSE]
      [] OTHER -> i

\* lines 131-132 and 136-137: cl.info.til_or_since is read in the on and
\* off cases only
ReadsTil(state) == state \in {ScreenSaverOn, ScreenSaverOff}

\* DecodeTil with the targets of lines 131 and 136 exchanged
DecodeTilSwapped(i, state, til) ==
    CASE state = ScreenSaverOn -> [i EXCEPT !.Countdown = til * Millisecond]
      [] state = ScreenSaverOff -> [i EXCEPT !.ActiveTime = til * Millisecond]
      [] OTHER -> i

\* DecodeTil that assigns both durations in the on and off cases
DecodeTilBoth(i, state, til) ==
    IF state \in {ScreenSaverOn, ScreenSaverOff}
      THEN [i EXCEPT !.ActiveTime = til * Millisecond, !.Countdown = til * Millisecond]
      ELSE i

\* DecodeTil that also assigns Countdown in the disabled case
DecodeTilDisabled(i, state, til) ==
    CASE state = ScreenSaverOn -> [i EXCEPT !.ActiveTime = til * Millisecond]
      [] state = ScreenSaverOff -> [i EXCEPT !.Countdown = til * Millisecond]
      [] state = ScreenSaverDisabled -> [i EXCEPT !.Countdown = til * Millisecond]
      [] OTHER -> i

\* lines 131-132 and 136-137: the duration assigned in the on and off cases
DecodeTil(i, state, til) ==
    CASE state = ScreenSaverOn -> [i EXCEPT !.ActiveTime = Duration(til)]
      [] state = ScreenSaverOff -> [i EXCEPT !.Countdown = Duration(til)]
      [] OTHER -> i

\* lines 142-149: a switch without default leaves i.Kind alone
DecodeKind(i, kind) ==
    CASE kind = ScreenSaverBlanked -> [i EXCEPT !.Kind = Blanked]
      [] kind = ScreenSaverInternal -> [i EXCEPT !.Kind = Internal]
      [] kind = ScreenSaverExternal -> [i EXCEPT !.Kind = External]
      [] OTHER -> i

\* Decode with the switch of lines 142-149 moved inside the on and off
\* cases, so that a disabled reply keeps the zero Kind
DecodeKindWhenEnabled(r) ==
    LET j == DecodeTil(DecodeState(DecodeIdle(ZeroInfo, r.idle), r.state), r.state, r.til_or_since)
    IN IF r.state = ScreenSaverDisabled THEN j ELSE DecodeKind(j, r.kind)

\* lines 126-150 run on one raw reply without interference
Decode(r) ==
    DecodeKind(DecodeTil(DecodeState(DecodeIdle(ZeroInfo, r.idle), r.state), r.state, r.til_or_since), r.kind)

\* ------------------------------------------- line 126 at its full width
\* The idle field of the reply is a CARD32.  A value that wide, and its
\* product with Millisecond, is written as its bytes, least significant
\* first.
RECURSIVE ToBytes(_, _)
ToBytes(n, len) == IF len = 0 THEN <<>> ELSE <<n % 256>> \o ToBytes(n \div 256, len - 1)

\* the low len bytes of a * m + carry: multiplication in an integer type of
\* len bytes, which keeps the low bytes and drops the rest
RECURSIVE MulCarry(_, _, _, _)
MulCarry(a, m, carry, len) ==
    IF len = 0 THEN <<>>
    ELSE LET d == (IF a = <<>> THEN 0 ELSE Head(a)) * m + carry
         IN <<d % 256>> \o MulCarry(IF a = <<>> THEN <<>> ELSE Tail(a), m, d \div 256, len - 1)

\* cl.info.idle: the CARD32 of the reply in the unsigned long of the
\* XScreenSaverInfo, the upper bytes zero
CULong(b) == b \o <<0, 0, 0, 0>>

\* the product of two int64, wrapping
Int64Mul(a, m) == MulCarry(a, m, 0, 8)

\* line 126 with the product taken in 32 bits before the conversion
WideDuration32(idle) == CULong(MulCarry(idle, Millisecond, 0, 4))

\* line 126: time.Duration(cl.info.idle) * time.Millisecond, an int64 of
\* nanoseconds
WideDuration(idle) == Int64Mul(CULong(idle), Millisecond)

\* lines 126-150 on a reply whose idle field is given by its bytes
DecodeWide(r) ==
    [Decode([r EXCEPT !.idle = 0]) EXCEPT !.IdleTime = WideDuration(r.idle)]

\* idle values of the reply, as bytes: the named ones and every combination
\* of the edge bytes, 0 and 2^32 - 1 among them
NamedIdles == {0, 1, 1000, 86400000}
EdgeBytes == {0, 1, 127, 128, 255}
WideIdles == {ToBytes(v, 4) : v \in NamedIdles} \cup [1..4 -> EdgeBytes]
WideRawInfo == [idle : WideIdles, state : StateCodes, til_or_since : Millis, kind : KindCodes]

\* ------------------------------------------------------------------ state
VARIABLES
    ncpc,       \* position of the NewClient call
    ncResult,   \* what NewClient returned: [cl, err]
    dispOpen,   \* the display connection of XOpenDisplay is open
    extQueries, \* calls of XScreenSaverQueryExtension
    allocs,     \* calls of XScreenSaverAllocInfo
    frees,      \* calls of XFree on the buffer
    infoState,  \* the buffer: "none", "allocated", "freed"
    buf,        \* contents of the buffer, with the caller whose round-trip wrote it
    client,     \* the Client struct on the heap that NewClient built
    finalizer,  \* "unset", "set", "ran"
    holders,    \* callers that still hold the *Client
    pc,         \* per caller: position in Query
    cl,         \* per caller: the receiver copy
    status,     \* per caller: var status C.Status
    i,          \* per caller: the named result i
    trips,      \* per caller: round-trips issued by the current call
    callsLeft,  \* calls on the constructed Client that may still be started
    info,       \* main: the Info of info, err := client.Query()
    err,        \* main: the error of info, err := client.Query()
    wide,       \* a reply with its idle field in bytes, and what Query made of it
    totalTrips  \* C.QueryInfo invocations

vars == <<ncpc, ncResult, dispOpen, extQueries, allocs, frees, infoState, buf, client,
          finalizer, holders, pc, cl, status, i, trips, callsLeft, totalTrips,
          info, err, wide>>

ncVars == <<ncpc, ncResult, dispOpen, extQueries, allocs, client>>
callVars == <<pc, cl, status, i, trips, callsLeft, totalTrips>>

NoResult == [cl |-> "none", err |-> "none"]
NoBuf == [idle |-> 0, state |-> 0, til_or_since |-> 0, kind |-> 0, by |-> 0]
NoWide == [raw |-> [idle |-> <<0, 0, 0, 0>>, state |-> 0, til_or_since |-> 0, kind |-> 0],
           done |-> FALSE, i |-> ZeroInfo]
mainVars == <<info, err, wide>>

Init ==
    /\ wide = NoWide
    /\ ncpc = "XOpenDisplay"
    /\ ncResult = NoResult
    /\ dispOpen = FALSE
    /\ extQueries = 0
    /\ allocs = 0
    /\ frees = 0
    /\ infoState = "none"
    /\ buf = NoBuf
    /\ client = ZeroClient
    /\ finalizer = "unset"
    /\ holders = {}
    /\ pc = [t \in Callers |-> "idle"]
    /\ cl = [t \in Callers |-> ZeroClient]
    /\ status = [t \in Callers |-> 0]
    /\ i = [t \in Callers |-> ZeroInfo]
    /\ trips = [t \in Callers |-> 0]
    /\ callsLeft = MaxCalls
    /\ info = ZeroInfo
    /\ err = "none"
    /\ totalTrips = 0

\* -------------------------------------------------------------- NewClient
\* XOpenDisplay without the early return of lines 90-92: a nil display goes
\* on to the extension check
XOpenDisplayUnchecked ==
    /\ ncpc = "XOpenDisplay"
    /\ \E ok \in BOOLEAN : dispOpen' = ok
    /\ ncpc' = "XScreenSaverQueryExtension"
    /\ UNCHANGED <<ncResult, extQueries, allocs, frees, infoState, buf, client, finalizer, holders>>
    /\ UNCHANGED callVars
    /\ UNCHANGED mainVars

\* lines 89-92: disp := C.XOpenDisplay(nil); if disp == nil { return nil, err }
XOpenDisplay ==
    /\ ncpc = "XOpenDisplay"
    /\ \E ok \in BOOLEAN :
         IF ok
           THEN /\ dispOpen' = TRUE
                /\ ncpc' = "XScreenSaverQueryExtension"
                /\ UNCHANGED ncResult
           ELSE /\ ncResult' = [cl |-> "nil", err |-> ErrOpen]
                /\ ncpc' = "returned"
                /\ UNCHANGED dispOpen
    /\ UNCHANGED <<extQueries, allocs, frees, infoState, buf, client, finalizer, holders>>
    /\ UNCHANGED callVars
    /\ UNCHANGED mainVars

\* lines 93-100: if C.XScreenSaverQueryExtension(...) == 0 { return nil, err }
XScreenSaverQueryExtension ==
    /\ ncpc = "XScreenSaverQueryExtension"
    /\ extQueries' = extQueries + 1
    /\ \E ok \in BOOLEAN :
         IF ok
           THEN /\ ncpc' = "XScreenSaverAllocInfo"
                /\ UNCHANGED ncResult
           ELSE /\ ncResult' = [cl |-> "nil", err |-> ErrExt]
                /\ ncpc' = "returned"
    /\ UNCHANGED <<dispOpen, allocs, frees, infoState, buf, client, finalizer, holders>>
    /\ UNCHANGED callVars
    /\ UNCHANGED mainVars

\* lines 101-104: cl := &Client{disp: disp, info: C.XScreenSaverAllocInfo()}
\* The buffer comes from Xmalloc and its first contents are indeterminate;
\* Query reads the buffer only after a round-trip of its own has succeeded,
\* so no read can observe them and the model keeps NoBuf for them.
XScreenSaverAllocInfo ==
    /\ ncpc = "XScreenSaverAllocInfo"
    /\ allocs' = allocs + 1
    /\ infoState' = "allocated"
    /\ buf' = NoBuf
    /\ client' = [disp |-> "disp", info |-> "info", mutex |-> FALSE]
    /\ ncpc' = "SetFinalizer"
    /\ UNCHANGED <<ncResult, dispOpen, extQueries, frees, finalizer, holders>>
    /\ UNCHANGED callVars
    /\ UNCHANGED mainVars

\* lines 105-108: runtime.SetFinalizer(cl, ...); return cl, nil
\* The caller hands the returned pointer to every goroutine.
SetFinalizer ==
    /\ ncpc = "SetFinalizer"
    /\ finalizer' = "set"
    /\ ncResult' = [cl |-> "client", err |-> NilErr]
    /\ holders' = Callers
    /\ ncpc' = "returned"
    /\ UNCHANGED <<dispOpen, extQueries, allocs, frees, infoState, buf, client>>
    /\ UNCHANGED callVars
    /\ UNCHANGED mainVars

\* ------------------------------------------------------- garbage collector
\* A goroutine's last use of the *Client is behind it: the pointer is dead.
\* A Query in flight does not keep the pointer alive, its receiver is a copy.
DropRef(t) ==
    /\ t \in holders
    /\ holders' = holders \ {t}
    /\ UNCHANGED <<frees, infoState, buf, finalizer>>
    /\ UNCHANGED ncVars
    /\ UNCHANGED callVars
    /\ UNCHANGED mainVars

\* lines 105-107: func(cl *Client) { C.XFree(unsafe.Pointer(cl.info)) },
\* run by the runtime once the Client is unreachable.  The contents of the
\* memory are indeterminate from here on (BufRead, Written): the model keeps
\* NoBuf for them.
Finalizer ==
    /\ finalizer = "set"
    /\ holders = {}
    /\ finalizer' = "ran"
    /\ frees' = frees + 1
    /\ infoState' = "freed"
    /\ buf' = NoBuf
    /\ UNCHANGED holders
    /\ UNCHANGED ncVars
    /\ UNCHANGED callVars
    /\ UNCHANGED mainVars

\* ------------------------------------------------------------ Client.Query
\* what a read of one field of the shared buffer can return: the stored
\* value, or anything at all once the buffer has been handed back to XFree
BufRead(stored, domain) == IF infoState = "allocated" THEN {stored} ELSE domain

\* whose reply a read of the buffer observes (0: no caller's reply)
BufWriter == IF infoState = "allocated" THEN buf.by ELSE 0

\* the receiver copy made by calling Query on the value c
Receiver(c) == [disp |-> c.disp, info |-> c.info, mutex |-> c.mutex]

\* Query without the check of line 113
NoDispCheck(c) == FALSE

\* line 113: if cl.disp == nil
FailsDispCheck(c) == c.disp = "nil"

\* lines 112-115: the call copies the receiver, then
\* if cl.disp == nil { panic(...) }.  viaPointer: client.Query() on the
\* *Client of NewClient; otherwise Query() on a zero-value Client{}.
\* The named result i starts as the zero Info.
Call(t, viaPointer) ==
    /\ pc[t] = "idle"
    /\ viaPointer => t \in holders /\ callsLeft > 0
    /\ LET c == Receiver(IF viaPointer THEN client ELSE ZeroClient) IN
         /\ cl' = [cl EXCEPT ![t] = c]
         /\ pc' = [pc EXCEPT ![t] = IF FailsDispCheck(c) THEN "panicked" ELSE "Lock"]
         /\ callsLeft' = IF FailsDispCheck(c) THEN callsLeft ELSE callsLeft - 1
    /\ i' = [i EXCEPT ![t] = ZeroInfo]
    /\ UNCHANGED <<status, trips, totalTrips>>
    /\ UNCHANGED <<frees, infoState, buf, finalizer, holders>>
    /\ UNCHANGED ncVars
    /\ UNCHANGED mainVars

\* Lock of a Query that allocates a result buffer of its own for the call
LockAllocating(t) ==
    /\ pc[t] = "Lock"
    /\ ~cl[t].mutex
    /\ status' = [status EXCEPT ![t] = 0]
    /\ trips' = [trips EXCEPT ![t] = 0]
    /\ allocs' = allocs + 1
    /\ cl' = [cl EXCEPT ![t].mutex = TRUE, ![t].info = "info2"]
    /\ pc' = [pc EXCEPT ![t] = "QueryInfo"]
    /\ UNCHANGED <<i, callsLeft, totalTrips>>
    /\ UNCHANGED <<frees, infoState, buf, finalizer, holders>>
    /\ UNCHANGED <<ncpc, ncResult, dispOpen, extQueries, client>>
    /\ UNCHANGED mainVars

\* line 116: var status C.Status, then line 118: cl.mutex.Lock(), on the
\* mutex of the receiver copy; the call then enters C.QueryInfo (line 120)
Lock(t) ==
    /\ pc[t] = "Lock"
    /\ ~cl[t].mutex
    /\ status' = [status EXCEPT ![t] = 0]
    /\ trips' = [trips EXCEPT ![t] = 0]
    /\ cl' = [cl EXCEPT ![t].mutex = TRUE]
    /\ pc' = [pc EXCEPT ![t] = "QueryInfo"]
    /\ UNCHANGED <<i, callsLeft, totalTrips>>
    /\ UNCHANGED <<frees, infoState, buf, finalizer, holders>>
    /\ UNCHANGED ncVars
    /\ UNCHANGED mainVars

\* the buffer after a round-trip of caller t that returned st with reply r:
\* on success the library has written the reply into the buffer
Written(t, st, r) ==
    IF st # 0 /\ infoState = "allocated"
      THEN [idle |-> r.idle, state |-> r.state, til_or_since |-> r.til_or_since,
            kind |-> r.kind, by |-> t]
      ELSE buf

\* QueryInfo with one retry inside Query when the round-trip fails
QueryInfoRetry(t) ==
    /\ pc[t] = "QueryInfo"
    /\ \E st \in StatusCodes, r \in StubReplies :
         /\ status' = [status EXCEPT ![t] = st]
         /\ buf' = Written(t, st, r)
         /\ trips' = [trips EXCEPT ![t] = IF st = 0 THEN @ + 2 ELSE @ + 1]
         /\ totalTrips' = IF st = 0 THEN totalTrips + 2 ELSE totalTrips + 1
    /\ pc' = [pc EXCEPT ![t] = "Unlock"]
    /\ UNCHANGED <<cl, i, callsLeft>>
    /\ UNCHANGED <<frees, infoState, finalizer, holders>>
    /\ UNCHANGED ncVars
    /\ UNCHANGED mainVars

\* QueryInfo followed by line 126 before the status check of line 122
QueryInfoThenIdle(t) ==
    /\ pc[t] = "QueryInfo"
    /\ \E st \in StatusCodes, r \in StubReplies :
         /\ status' = [status EXCEPT ![t] = st]
         /\ buf' = Written(t, st, r)
         /\ \E v \in BufRead(buf'.idle, GarbageMillis) :
              i' = [i EXCEPT ![t] = DecodeIdle(i[t], v)]
    /\ trips' = [trips EXCEPT ![t] = @ + 1]
    /\ totalTrips' = totalTrips + 1
    /\ pc' = [pc EXCEPT ![t] = "Unlock"]
    /\ UNCHANGED <<cl, callsLeft>>
    /\ UNCHANGED mainVars
    /\ UNCHANGED <<frees, infoState, finalizer, holders>>
    /\ UNCHANGED ncVars

\* line 120 (and 26-28): status = C.QueryInfo(cl.disp, cl.info) returns
QueryInfo(t) ==
    /\ pc[t] = "QueryInfo"
    /\ \E st \in StatusCodes, r \in StubReplies :
         /\ status' = [status EXCEPT ![t] = st]
         /\ buf' = Written(t, st, r)
    /\ trips' = [trips EXCEPT ![t] = @ + 1]
    /\ totalTrips' = totalTrips + 1
    /\ pc' = [pc EXCEPT ![t] = "Unlock"]
    /\ UNCHANGED <<cl, i, callsLeft>>
    /\ UNCHANGED mainVars
    /\ UNCHANGED <<frees, infoState, finalizer, holders>>
    /\ UNCHANGED ncVars

\* an Unlock written after the call instead of deferred, and skipped by an
\* early return on failure
MutexUnlockOnSuccess(c, st) == IF st = 0 THEN c ELSE [c EXCEPT !.mutex = FALSE]

\* the closure of lines 117-121 without its deferred Unlock
MutexUnlockMissing(c, st) == c

\* line 119: defer cl.mutex.Unlock() runs when the closure returns, whatever
\* the status
MutexUnlock(c, st) == [c EXCEPT !.mutex = FALSE]

\* line 119, then lines 122-125: if status == 0 { err = ...; return }
Unlock(t) ==
    /\ pc[t] = "Unlock"
    /\ LET c == MutexUnlock(cl[t], status[t]) IN
         /\ cl' = [cl EXCEPT ![t] = c]
         /\ pc' = [pc EXCEPT ![t] = IF status[t] = 0 THEN "idle" ELSE "ReadIdle"]
    /\ UNCHANGED <<status, i, trips>>
    /\ UNCHANGED mainVars
    /\ UNCHANGED <<callsLeft, totalTrips>>
    /\ UNCHANGED <<frees, infoState, buf, finalizer, holders>>
    /\ UNCHANGED ncVars

\* line 126: i.IdleTime = time.Duration(cl.info.idle) * time.Millisecond
ReadIdle(t) ==
    /\ pc[t] = "ReadIdle"
    /\ \E v \in BufRead(buf.idle, GarbageMillis) : i' = [i EXCEPT ![t] = DecodeIdle(@, v)]
    /\ pc' = [pc EXCEPT ![t] = "ReadState"]
    /\ UNCHANGED <<cl, status, trips, callsLeft, totalTrips>>
    /\ UNCHANGED mainVars
    /\ UNCHANGED <<frees, infoState, buf, finalizer, holders>>
    /\ UNCHANGED ncVars

\* lines 127-141: switch cl.info.state, and the Enabled/Active assignments
ReadState(t) ==
    /\ pc[t] = "ReadState"
    /\ \E v \in BufRead(buf.state, StateCodes) :
         /\ i' = [i EXCEPT ![t] = DecodeState(@, v)]
         /\ pc' = [pc EXCEPT ![t] = IF ReadsTil(v) THEN "ReadTil" ELSE "ReadKind"]
    /\ UNCHANGED <<cl, status, trips, callsLeft, totalTrips>>
    /\ UNCHANGED mainVars
    /\ UNCHANGED <<frees, infoState, buf, finalizer, holders>>
    /\ UNCHANGED ncVars

\* lines 131-132 (case on, Active just set) and 136-137 (case off):
\* the read of cl.info.til_or_since
ReadTil(t) ==
    /\ pc[t] = "ReadTil"
    /\ \E v \in BufRead(buf.til_or_since, GarbageMillis) :
         i' = [i EXCEPT ![t] = DecodeTil(@, IF @.Active THEN ScreenSaverOn ELSE ScreenSaverOff, v)]
    /\ pc' = [pc EXCEPT ![t] = "ReadKind"]
    /\ UNCHANGED <<cl, status, trips, callsLeft, totalTrips>>
    /\ UNCHANGED mainVars
    /\ UNCHANGED <<frees, infoState, buf, finalizer, holders>>
    /\ UNCHANGED ncVars

\* what Query() returns to its caller in the next step of caller t, if that
\* step is a return: line 124 (after line 123) or line 150 (after the switch
\* of lines 142-149)
Results(t) ==
    IF pc[t] = "Unlock" /\ status[t] = 0
      THEN {[i |-> i[t], err |-> ErrQuery]}
      ELSE IF pc[t] = "ReadKind"
             THEN {[i |-> DecodeKind(i[t], v), err |-> NilErr] : v \in BufRead(buf.kind, KindCodes)}
             ELSE {}

\* lines 142-150: switch cl.info.kind, then return; the Info goes to the
\* caller and the frame keeps nothing of it
ReadKind(t) ==
    /\ pc[t] = "ReadKind"
    /\ Results(t) # {}
    /\ i' = [i EXCEPT ![t] = ZeroInfo]
    /\ pc' = [pc EXCEPT ![t] = "idle"]
    /\ UNCHANGED <<cl, status, trips, callsLeft, totalTrips>>
    /\ UNCHANGED <<frees, infoState, buf, finalizer, holders>>
    /\ UNCHANGED ncVars
    /\ UNCHANGED mainVars

\* ------------------------------------------------------------------- main
\* the raw reply held by the buffer
Raw(b) == [idle |-> b.idle, state |-> b.state, til_or_since |-> b.til_or_since, kind |-> b.kind]

\* src/cmd/xss-query/main.go line 18 (and doc_test.go line 16):
\* info, err := client.Query(), a whole call of lines 112-150 by a caller
\* that runs alone, on a round-trip that returns st with reply r
MainQuery(t, st, r) ==
    /\ ncResult.err = NilErr
    /\ pc[t] = "idle"
    /\ t \in holders
    /\ callsLeft > 0
    /\ ~FailsDispCheck(Receiver(client))
    /\ callsLeft' = callsLeft - 1
    /\ buf' = Written(t, st, r)
    /\ cl' = [cl EXCEPT ![t] = MutexUnlock([Receiver(client) EXCEPT !.mutex = TRUE], st)]
    /\ status' = [status EXCEPT ![t] = st]
    /\ trips' = [trips EXCEPT ![t] = 1]
    /\ totalTrips' = totalTrips + 1
    /\ info' = IF st = 0 THEN ZeroInfo ELSE Decode(Raw(buf'))
    /\ err' = IF st = 0 THEN ErrQuery ELSE NilErr
    /\ UNCHANGED <<pc, i, wide>>
    /\ UNCHANGED <<frees, infoState, finalizer, holders>>
    /\ UNCHANGED ncVars

\* lines 122-150 of a call whose round-trip succeeded with the reply wide.raw
WideQuery ==
    /\ ~wide.done
    /\ wide' = [wide EXCEPT !.done = TRUE, !.i = DecodeWide(wide.raw)]
    /\ UNCHANGED <<info, err>>
    /\ UNCHANGED <<frees, infoState, buf, finalizer, holders>>
    /\ UNCHANGED ncVars
    /\ UNCHANGED callVars

\* ---------------------------------------------------------- specification
Next ==
    \/ XOpenDisplay
    \/ XScreenSaverQueryExtension
    \/ XScreenSaverAllocInfo
    \/ SetFinalizer
    \/ \E t \in Callers : DropRef(t)
    \/ Finalizer
    \/ \E t \in Callers, viaPointer \in BOOLEAN : Call(t, viaPointer)
    \/ \E t \in Callers : Lock(t)
    \/ \E t \in Callers : QueryInfo(t)
    \/ \E t \in Callers : Unlock(t)
    \/ \E t \in Callers : ReadIdle(t)
    \/ \E t \in Callers : ReadState(t)
    \/ \E t \in Callers : ReadTil(t)
    \/ \E t \in Callers : ReadKind(t)

\* Query() calls started on the constructed Client
totalCalls == MaxCalls - callsLeft

Spec == Init /\ [][Next]_vars

\* one caller, whose calls run to completion one after the other while it
\* keeps the Client reachable; replies range over all of RawInfo
SeqNext ==
    \/ XOpenDisplay
    \/ XScreenSaverQueryExtension
    \/ XScreenSaverAllocInfo
    \/ SetFinalizer
    \/ \E st \in StatusCodes, r \in RawInfo : MainQuery(1, st, r)

SeqSpec == Init /\ [][SeqNext]_vars

TypeOK ==
    /\ infoState \in {"none", "allocated", "freed"}
    /\ holders \subseteq Callers
    /\ callsLeft \in 0..MaxCalls

\* the collector runs the finalizer of an unreachable Client, every caller
\* that can take a step eventually takes it, and NewClient runs to its return
Fairness ==
    /\ WF_vars(XOpenDisplay \/ XScreenSaverQueryExtension \/ XScreenSaverAllocInfo \/ SetFinalizer)
    /\ WF_vars(Finalizer)
    /\ \A t \in Callers :
         WF_vars(Lock(t) \/ QueryInfo(t) \/ Unlock(t) \/ ReadIdle(t) \/ ReadState(t)
                   \/ ReadTil(t) \/ ReadKind(t))

FairSpec == Spec /\ Fairness

\* the goroutines alone: a call that can take its next step eventually takes
\* it (the scheduler preempts, and every round-trip returns); nothing is
\* assumed of NewClient or of the collector
QueryFairness ==
    \A t \in Callers :
        WF_vars(Lock(t) \/ QueryInfo(t) \/ Unlock(t) \/ ReadIdle(t) \/ ReadState(t)
                  \/ ReadTil(t) \/ ReadKind(t))

FairQuerySpec == Spec /\ QueryFairness

\* the decode of one reply, for every reply with an idle value of WideIdles
WideInit ==
    \E w \in WideRawInfo :
        /\ wide = [NoWide EXCEPT !.raw = w]
        /\ ncpc = "XOpenDisplay" /\ ncResult = NoResult /\ dispOpen = FALSE
        /\ extQueries = 0 /\ allocs = 0 /\ frees = 0
        /\ infoState = "none" /\ buf = NoBuf /\ client = ZeroClient
        /\ finalizer = "unset" /\ holders = {}
        /\ pc = [t \in Callers |-> "idle"]
        /\ cl = [t \in Callers |-> ZeroClient]
        /\ status = [t \in Callers |-> 0]
        /\ i = [t \in Callers |-> ZeroInfo]
        /\ trips = [t \in Callers |-> 0]
        /\ callsLeft = MaxCalls /\ totalTrips = 0
        /\ info = ZeroInfo /\ err = "none"

WideNext == WideQuery

WideSpec == WideInit /\ [][WideNext]_vars

\* ----------------------------------------------------------------- claims
\* positions of a call between its start and its return
InFlight == {"Lock", "QueryInfo", "Unlock", "ReadIdle", "ReadState", "ReadTil", "ReadKind"}
\* positions of a call after its round-trip and before its last read of the buffer
Decoding == {"ReadIdle", "ReadState", "ReadTil", "ReadKind"}
\* caller t has made a call on the constructed Client and that call has returned
Returned(t) == pc[t] = "idle" /\ cl[t].disp # "nil"

KnownStates == {ScreenSaverOn, ScreenSaverOff, ScreenSaverDisabled}
KnownKinds == {ScreenSaverBlanked, ScreenSaverInternal, ScreenSaverExternal}

\* C1: at most one round-trip (C.QueryInfo on the shared display and buffer)
\* is in flight at any time.
C1_MutualExclusion == Cardinality({t \in Callers : pc[t] = "QueryInfo"}) <= 1

\* C2: between a call's successful round-trip and the end of its decode the
\* buffer holds the reply of that call's own round-trip: no other call's
\* round-trip has overwritten it.
C2_AtomicSnapshot ==
    \A t \in Callers : (pc[t] \in Decoding /\ infoState = "allocated") => buf.by = t

\* C3: the buffer is never released while a Query() on the Client is in
\* flight or while a caller still holds the Client.
C3_NoReleaseWhileInUse ==
    infoState = "freed" => (holders = {} /\ \A t \in Callers : pc[t] \notin InFlight)

\* C4: once the constructed Client is unreachable, the display connection
\* and the buffer are each eventually released, and the buffer is never
\* released twice.
C4_ReleasedExactlyOnce ==
    /\ (finalizer = "set" /\ holders = {}) ~> (~dispOpen /\ frees = 1)
    /\ [](frees <= 1)

\* C5: a call whose round-trip succeeded with a raw state code that is none
\* of on, off, disabled returns a non-nil error.
C5_UnknownStateIsError ==
    (err # "none" /\ status[1] # 0 /\ buf.state \notin KnownStates) => err # NilErr

\* C6: a call whose round-trip succeeded with an unrecognised raw kind code
\* returns no error and a Kind that is the unknown value, never Blanked, and
\* its other fields are those of the same reply with a recognised kind code.
C6_UnknownKindIsUnknown ==
    (err # "none" /\ status[1] # 0 /\ buf.kind \notin KnownKinds) =>
        /\ err = NilErr
        /\ KindString(info.Kind) = "unknown"
        /\ info.Kind # Blanked
        /\ [info EXCEPT !.Kind = Internal] = Decode([Raw(buf) EXCEPT !.kind = ScreenSaverInternal])

\* C7: every Query() call on the constructed Client performs exactly one
\* round-trip: the round-trips issued equal the calls started less the calls
\* that have not reached theirs yet, and each call past its round-trip has
\* issued exactly one, whether it succeeded or failed.
C7_OneRoundTripPerCall ==
    /\ totalTrips = totalCalls - Cardinality({t \in Callers : pc[t] \in {"Lock", "QueryInfo"}})
    /\ \A t \in Callers : pc[t] = "QueryInfo" => trips[t] = 0
    /\ \A t \in Callers : (pc[t] \in InFlight \ {"Lock", "QueryInfo"} \/ Returned(t)) => trips[t] = 1

\* every call has returned, one of them after a failed round-trip and one
\* after a successful one
C7_Witness ==
    /\ callsLeft = 0
    /\ totalTrips = MaxCalls
    /\ \A t \in Callers : Returned(t)
    /\ \E t \in Callers : status[t] = 0
    /\ \E t \in Callers : status[t] # 0

\* C8: NewClient performs the extension check only on an open connection
\* and allocates the buffer only after a successful check; a failed open
\* returns the connection error and no Client, a failed check returns the
\* different capability error and no Client, and a Client is returned with a
\* nil error exactly when both steps succeeded and the buffer is allocated.
C8_ConstructionOrder ==
    /\ extQueries > 0 => dispOpen
    /\ allocs > 0 => (dispOpen /\ extQueries = 1)
    /\ ncpc = "returned" =>
         /\ ncResult.err \in {ErrOpen, ErrExt, NilErr}
         /\ ncResult.err = ErrOpen => (ncResult.cl = "nil" /\ ~dispOpen /\ extQueries = 0 /\ allocs = 0)
         /\ ncResult.err = ErrExt => (ncResult.cl = "nil" /\ dispOpen /\ extQueries = 1 /\ allocs = 0)
         /\ ncResult.err = NilErr =>
              (ncResult.cl = "client" /\ dispOpen /\ extQueries = 1 /\ allocs = 1
               /\ infoState # "none" /\ client.disp = "disp" /\ client.info = "info")

\* NewClient has returned the capability error: the connection was opened
\* and the check failed
C8_Witness == ncpc = "returned" /\ ncResult.err = ErrExt /\ dispOpen

\* C9: a call whose round-trip reports failure returns the query error, and
\* when it has returned the lock it took is not held, nor is the Client's
\* own; a call arriving at its Lock finds the lock free.
C9_FailureReleasesLock ==
    /\ \A t \in Callers : (pc[t] = "Unlock" /\ status[t] = 0) =>
                             \A r \in Results(t) : r.err = ErrQuery /\ r.err # NilErr
    /\ \A t \in Callers : (Returned(t) /\ status[t] = 0) => ~cl[t].mutex
    /\ ~client.mutex
    /\ \A t \in Callers : pc[t] = "Lock" => ~cl[t].mutex

\* a caller whose last call failed after one round-trip has started its
\* next call on the same Client and stands at its Lock
C9_Witness ==
    \E t \in Callers : pc[t] = "Lock" /\ status[t] = 0 /\ trips[t] = 1 /\ cl[t].disp = "disp"

\* C10: a call on a Client with a nil display handle panics at once: it
\* never takes the lock, never reaches the round-trip, has no result to
\* return, and never resumes.
C10_ZeroValuePanics ==
    /\ [](\A t \in Callers :
            /\ cl[t].disp = "nil" => (pc[t] \in {"idle", "panicked"} /\ ~cl[t].mutex)
            /\ pc[t] = "panicked" => (cl[t].disp = "nil" /\ Results(t) = {}))
    /\ [][\A t \in Callers :
            /\ pc[t] = "panicked" => pc'[t] = "panicked"
            /\ (pc[t] # "panicked" /\ pc'[t] = "panicked") => totalTrips' = totalTrips]_vars

\* a caller has panicked on a zero-value Client while the Client of a
\* successful NewClient exists and has served a round-trip
C10_Witness ==
    /\ \E t \in Callers : pc[t] = "panicked"
    /\ ncResult.err = NilErr
    /\ totalTrips > 0

\* the call that main made last returned an Info decoded from the reply
\* now in the buffer
Decoded == err = NilErr /\ status[1] # 0 /\ buf.by = 1

\* C11: every Info a call returns, and every Info under construction, has
\* Active only together with Enabled, whatever the interleaving and whatever
\* the reads of the buffer yield.
C11_ActiveImpliesEnabled ==
    /\ \A t \in Callers : \A r \in Results(t) : r.i.Active => r.i.Enabled
    /\ \A t \in Callers : i[t].Active => i[t].Enabled

\* a call is about to return an active Info although another caller's reply
\* has replaced its own in the buffer
C11_Witness ==
    \E t \in Callers : pc[t] = "ReadKind" /\ i[t].Active /\ infoState = "allocated" /\ buf.by # t

\* C12: a reply with state code on decodes to Enabled, Active, ActiveTime =
\* til_or_since milliseconds, Countdown = 0.
C12_DecodeOn ==
    (Decoded /\ buf.state = ScreenSaverOn) =>
        /\ info.Enabled /\ info.Active
        /\ info.ActiveTime = buf.til_or_since * Millisecond
        /\ info.Countdown = 0

\* an on reply with a nonzero til_or_since has been decoded
C12_Witness == Decoded /\ buf.state = ScreenSaverOn /\ buf.til_or_since = MaxMillis /\ buf.idle = 0

\* C13: a reply with state code off decodes to Enabled, not Active,
\* Countdown = til_or_since milliseconds, ActiveTime = 0.
C13_DecodeOff ==
    (Decoded /\ buf.state = ScreenSaverOff) =>
        /\ info.Enabled /\ ~info.Active
        /\ info.Countdown = buf.til_or_since * Millisecond
        /\ info.ActiveTime = 0

\* an off reply with a nonzero til_or_since has been decoded
C13_Witness == Decoded /\ buf.state = ScreenSaverOff /\ buf.til_or_since = MaxMillis /\ buf.idle = 0

\* C14: a reply with state code disabled decodes to not Enabled, not Active,
\* Countdown = 0 and ActiveTime = 0, whatever its other fields.
C14_DecodeDisabled ==
    (Decoded /\ buf.state = ScreenSaverDisabled) =>
        /\ ~info.Enabled /\ ~info.Active
        /\ info.Countdown = 0
        /\ info.ActiveTime = 0

\* a disabled reply with nonzero til_or_since and idle and a kind other than
\* blanked has been decoded
C14_Witness ==
    /\ Decoded /\ buf.state = ScreenSaverDisabled
    /\ buf.til_or_since = MaxMillis /\ buf.idle = MaxMillis /\ buf.kind = ScreenSaverExternal

\* C15: each recognised raw kind code decodes to its Kind, under every state
\* code, disabled included.
C15_DecodeKind ==
    (Decoded /\ buf.kind \in KnownKinds) =>
        /\ buf.kind = ScreenSaverBlanked => info.Kind = Blanked
        /\ buf.kind = ScreenSaverInternal => info.Kind = Internal
        /\ buf.kind = ScreenSaverExternal => info.Kind = External

\* a disabled reply of kind external has been decoded
C15_Witness == Decoded /\ buf.state = ScreenSaverDisabled /\ buf.kind = ScreenSaverExternal /\ ~info.Enabled

\* C17: XScreenSaverAllocInfo runs at most once, in NewClient; once it has
\* run the Client on the heap keeps the display and the buffer it was built
\* with, and every call, in flight or returned, works on a receiver copy with
\* that same display and that same buffer.
C17_OneBufferReused ==
    /\ allocs <= 1
    /\ (\E t \in Callers : pc[t] \in InFlight \/ Returned(t)) => allocs = 1
    /\ allocs = 1 => client.disp = "disp" /\ client.info = "info"
    /\ \A t \in Callers :
         (pc[t] \in InFlight \/ Returned(t)) =>
             cl[t].disp = client.disp /\ cl[t].info = client.info

\* every caller has finished a round-trip of a call, and both calls of the
\* budget have been made, on the one buffer
C17_Witness ==
    /\ allocs = 1 /\ totalTrips = MaxCalls /\ callsLeft = 0
    /\ \A t \in Callers : pc[t] \in Decoding

\* C19: once NewClient has returned an error, nothing it acquired is still
\* held: the display connection is not open and no buffer is allocated.
C19_ErrorLeavesNothingAcquired ==
    (ncpc = "returned" /\ ncResult.err # NilErr) =>
        ~dispOpen /\ infoState # "allocated"

\* C20: a call that returns an error returns the zero Info with it.
C20_ErrorReturnsZeroInfo ==
    \A t \in Callers : \A r \in Results(t) : r.err # NilErr => r.i = ZeroInfo

\* a call is about to return the error of line 123 while the buffer holds
\* the nonzero reply of an earlier round-trip
C20_Witness ==
    \E t \in Callers :
        /\ pc[t] = "Unlock" /\ status[t] = 0
        /\ infoState = "allocated" /\ buf.by # 0 /\ buf.idle # 0

\* the calls between cl.mutex.Lock() returning and the deferred Unlock
Holding == {"QueryInfo", "Unlock"}

\* C18: a mutex is locked only while its call is between Lock and Unlock
\* (the mutex of the Client on the heap, which no call locks, never is); and
\* under fair scheduling, with every round-trip returning, every call that
\* has started returns: no caller stays inside a call for ever, and the only
\* step out of a call is its return.
C18_LockFreedAndCallsReturn ==
    /\ [](/\ ~client.mutex
          /\ \A t \in Callers : cl[t].mutex => pc[t] \in Holding)
    /\ \A t \in Callers : []<>(pc[t] \notin InFlight)

\* all callers are inside their calls at once, one of them past a failed
\* round-trip and still holding its mutex
C18_Witness ==
    /\ \A t \in Callers : pc[t] \in InFlight
    /\ \E t \in Callers : pc[t] = "Unlock" /\ status[t] = 0 /\ cl[t].mutex

\* quotient (in bytes) and remainder of the division of a by m
RECURSIVE DivRem(_, _)
DivRem(a, m) ==
    IF a = <<>> THEN [q |-> <<>>, r |-> 0]
    ELSE LET hi == DivRem(Tail(a), m)
             cur == hi.r * 256 + Head(a)
         IN [q |-> <<cur \div m>> \o hi.q, r |-> cur % m]

\* the number written by the bytes a
RECURSIVE IntOf(_)
IntOf(a) == IF a = <<>> THEN 0 ELSE Head(a) + 256 * IntOf(Tail(a))

\* C16: for every 32-bit idle value V of the reply, every state code and
\* every kind code, the IdleTime of the returned Info is a nonnegative int64,
\* is the product V * 1000000 with no byte lost to the 64-bit width, and
\* divides by Millisecond to V with remainder 0; where the numbers are small
\* enough to be written out, it is V * Millisecond.
C16_IdleTimeExact ==
    wide.done =>
        LET v == wide.raw.idle
            d == wide.i.IdleTime
        IN /\ Len(d) = 8 /\ d[8] < 128
           /\ d \o <<0, 0, 0, 0>> = MulCarry(v, Millisecond, 0, 12)
           /\ DivRem(d, Millisecond) = [q |-> v \o <<0, 0, 0, 0>>, r |-> 0]
           /\ (v[2] < 8 /\ v[3] = 0 /\ v[4] = 0) => IntOf(d) = IntOf(v) * Millisecond

\* a disabled reply of unknown kind with an idle time of one day has been
\* decoded
C16_Witness ==
    /\ wide.done /\ wide.raw.idle = ToBytes(86400000, 4)
    /\ wide.raw.state = ScreenSaverDisabled /\ wide.raw.kind \notin KnownKinds
    /\ ~wide.i.Enabled

====
